---- MODULE Spec2Model ----
(***************************************************************************)
(* Frame pipelining of ShapesApp (the castle demo): the ring of frame      *)
(* resources, the fence protocol between the CPU tick and the GPU queue,   *)
(* and the dirty-counter replication of object and material constants.     *)
(*                                                                         *)
(* Units.  Lengths of the scene are held in quarters (1.0 = 4), time in    *)
(* eighths of a second (0.25 s = 2), texture offsets in 1/400 (1.0 = 400), *)
(* so that 0.1f*dt and 0.02f*dt are the integers 5*dt and 1*dt.            *)
(***************************************************************************)
EXTENDS Integers, Sequences, FiniteSets, TLC

\* ------------------------------------------------------------------ bounds
MaxTicks == 4
MaxInitFence == 1
MaxWavesCalls == 3
MaxWavesSteps == 2
MaxGrid == 5

\* --------------------------------------------------------------- constants
gNumFrameResources == 3
NULL == -1
LenOne == 4
TexOne == 400
QuarterSecond == 2
TuPerDt == 5
TvPerDt == 1
DtSet == {0, 2, 48}

FrameSlots == 0 .. (gNumFrameResources - 1)

\* ---------------------------------------------------------------- matrices
Identity4x4(one) ==
    << <<one, 0, 0, 0>>, <<0, one, 0, 0>>, <<0, 0, one, 0>>, <<0, 0, 0, one>> >>

\* XMMatrixScaling(sx,sy,sz) * XMMatrixTranslation(tx,ty,tz), row vectors
ScaleTrans(sx, sy, sz, tx, ty, tz) ==
    << <<sx, 0, 0, 0>>, <<0, sy, 0, 0>>, <<0, 0, sz, 0>>, <<tx, ty, tz, LenOne>> >>

XMMatrixTranspose(M) == [i \in 1..4 |-> [j \in 1..4 |-> M[j][i]]]

ZeroMatrix == [i \in 1..4 |-> [j \in 1..4 |-> 0]]

\* ------------------------------------------------------------------- scene
\* The statements of BuildRenderItems in source order; lit = -1 stands for
\* "ObjCBIndex = Index++" (or objCBIndex++), any other lit is the literal
\* the source assigns.
RitemSrc ==
   <<
      [name |-> "waves", lit |-> -1, World |-> ScaleTrans(12, 4, 12, 0, -12, 0), TexTransform |-> ScaleTrans(20, 20, 20, 0, 0, 0), Mat |-> "water", Geo |-> "waterGeo", Layer |-> "Transparent"],
      [name |-> "treeSprites", lit |-> 3, World |-> ScaleTrans(4, 4, 4, 0, 0, 0), TexTransform |-> ScaleTrans(4, 4, 4, 0, 0, 0), Mat |-> "treeSprites", Geo |-> "treeSpritesGeo", Layer |-> "AlphaTestedTreeSprites"],
      [name |-> "box", lit |-> -1, World |-> ScaleTrans(140, 120, 6, 0, 30, 100), TexTransform |-> ScaleTrans(4, 4, 4, 0, 0, 0), Mat |-> "brick", Geo |-> "shapeGeo", Layer |-> "Opaque"],
      [name |-> "box", lit |-> -1, World |-> ScaleTrans(6, 120, 140, -100, 30, 0), TexTransform |-> ScaleTrans(4, 4, 4, 0, 0, 0), Mat |-> "brick", Geo |-> "shapeGeo", Layer |-> "Opaque"],
      [name |-> "box", lit |-> -1, World |-> ScaleTrans(6, 120, 140, 100, 30, 0), TexTransform |-> ScaleTrans(4, 4, 4, 0, 0, 0), Mat |-> "brick", Geo |-> "shapeGeo", Layer |-> "Opaque"],
      [name |-> "box", lit |-> -1, World |-> ScaleTrans(40, 120, 6, -60, 32, -100), TexTransform |-> ScaleTrans(4, 4, 4, 0, 0, 0), Mat |-> "brick", Geo |-> "shapeGeo", Layer |-> "Opaque"],
      [name |-> "box", lit |-> -1, World |-> ScaleTrans(40, 120, 6, 60, 32, -100), TexTransform |-> ScaleTrans(4, 4, 4, 0, 0, 0), Mat |-> "brick", Geo |-> "shapeGeo", Layer |-> "Opaque"],
      [name |-> "box", lit |-> -1, World |-> ScaleTrans(40, 40, 6, 0, 52, -100), TexTransform |-> ScaleTrans(4, 4, 4, 0, 0, 0), Mat |-> "brick", Geo |-> "shapeGeo", Layer |-> "Opaque"],
      [name |-> "grid", lit |-> -1, World |-> ScaleTrans(4, 4, 4, 0, 0, 0), TexTransform |-> ScaleTrans(4, 4, 4, 0, 0, 0), Mat |-> "grass", Geo |-> "shapeGeo", Layer |-> "Opaque"],
      [name |-> "box2", lit |-> -1, World |-> ScaleTrans(20, 20, 6, -60, 64, 96), TexTransform |-> ScaleTrans(4, 4, 4, 0, 0, 0), Mat |-> "stone", Geo |-> "shapeGeo", Layer |-> "Opaque"],
      [name |-> "box2", lit |-> -1, World |-> ScaleTrans(20, 20, 6, -60, 64, -96), TexTransform |-> ScaleTrans(4, 4, 4, 0, 0, 0), Mat |-> "stone", Geo |-> "shapeGeo", Layer |-> "Opaque"],
      [name |-> "box2", lit |-> -1, World |-> ScaleTrans(20, 20, 6, 0, 64, 96), TexTransform |-> ScaleTrans(4, 4, 4, 0, 0, 0), Mat |-> "stone", Geo |-> "shapeGeo", Layer |-> "Opaque"],
      [name |-> "box2", lit |-> -1, World |-> ScaleTrans(20, 20, 6, 0, 64, -96), TexTransform |-> ScaleTrans(4, 4, 4, 0, 0, 0), Mat |-> "stone", Geo |-> "shapeGeo", Layer |-> "Opaque"],
      [name |-> "box2", lit |-> -1, World |-> ScaleTrans(20, 20, 6, 60, 64, 96), TexTransform |-> ScaleTrans(4, 4, 4, 0, 0, 0), Mat |-> "stone", Geo |-> "shapeGeo", Layer |-> "Opaque"],
      [name |-> "box2", lit |-> -1, World |-> ScaleTrans(20, 20, 6, 60, 64, -96), TexTransform |-> ScaleTrans(4, 4, 4, 0, 0, 0), Mat |-> "stone", Geo |-> "shapeGeo", Layer |-> "Opaque"],
      [name |-> "box2", lit |-> -1, World |-> ScaleTrans(6, 20, 20, 100, 68, -60), TexTransform |-> ScaleTrans(4, 4, 4, 0, 0, 0), Mat |-> "stone", Geo |-> "shapeGeo", Layer |-> "Opaque"],
      [name |-> "box2", lit |-> -1, World |-> ScaleTrans(6, 20, 20, 100, 64, -4), TexTransform |-> ScaleTrans(4, 4, 4, 0, 0, 0), Mat |-> "stone", Geo |-> "shapeGeo", Layer |-> "Opaque"],
      [name |-> "box2", lit |-> -1, World |-> ScaleTrans(6, 20, 20, 100, 64, 58), TexTransform |-> ScaleTrans(4, 4, 4, 0, 0, 0), Mat |-> "stone", Geo |-> "shapeGeo", Layer |-> "Opaque"],
      [name |-> "box2", lit |-> -1, World |-> ScaleTrans(6, 20, 20, -100, 64, -60), TexTransform |-> ScaleTrans(4, 4, 4, 0, 0, 0), Mat |-> "stone", Geo |-> "shapeGeo", Layer |-> "Opaque"],
      [name |-> "box2", lit |-> -1, World |-> ScaleTrans(6, 20, 20, -100, 64, -4), TexTransform |-> ScaleTrans(4, 4, 4, 0, 0, 0), Mat |-> "stone", Geo |-> "shapeGeo", Layer |-> "Opaque"],
      [name |-> "box2", lit |-> -1, World |-> ScaleTrans(6, 20, 20, -100, 64, 58), TexTransform |-> ScaleTrans(4, 4, 4, 0, 0, 0), Mat |-> "stone", Geo |-> "shapeGeo", Layer |-> "Opaque"],
      [name |-> "wedge", lit |-> -1, World |-> ScaleTrans(5, 8, 8, 0, 6, -120), TexTransform |-> ScaleTrans(4, 4, 4, 0, 0, 0), Mat |-> "brick", Geo |-> "shapeGeo", Layer |-> "Opaque"],
      [name |-> "pyramid", lit |-> -1, World |-> ScaleTrans(50, 50, 50, 0, 40, 0), TexTransform |-> ScaleTrans(4, 4, 4, 0, 0, 0), Mat |-> "stone", Geo |-> "shapeGeo", Layer |-> "Opaque"],
      [name |-> "diamond", lit |-> -1, World |-> ScaleTrans(4, 4, 4, 0, 86, 0), TexTransform |-> ScaleTrans(4, 4, 4, 0, 0, 0), Mat |-> "ice", Geo |-> "shapeGeo", Layer |-> "Opaque"],
      [name |-> "sanlengzhu", lit |-> -1, World |-> ScaleTrans(8, 8, 8, 0, 14, 60), TexTransform |-> ScaleTrans(4, 4, 4, 0, 0, 0), Mat |-> "board", Geo |-> "shapeGeo", Layer |-> "Opaque"],
      [name |-> "trapezoid", lit |-> -1, World |-> ScaleTrans(8, 8, 8, 0, 30, 60), TexTransform |-> ScaleTrans(4, 4, 4, 0, 0, 0), Mat |-> "stone", Geo |-> "shapeGeo", Layer |-> "Opaque"],
      [name |-> "diamond", lit |-> -1, World |-> ScaleTrans(4, 4, 4, 0, 50, 60), TexTransform |-> ScaleTrans(4, 4, 4, 0, 0, 0), Mat |-> "ice", Geo |-> "shapeGeo", Layer |-> "Opaque"],
      [name |-> "torus", lit |-> -1, World |-> ScaleTrans(4, 4, 4, 0, 90, 0), TexTransform |-> ScaleTrans(4, 4, 4, 0, 0, 0), Mat |-> "ice", Geo |-> "shapeGeo", Layer |-> "Opaque"],
      [name |-> "leftCyl", lit |-> -1, World |-> ScaleTrans(4, 4, 4, -100, 38, 96), TexTransform |-> ScaleTrans(4, 4, 4, 0, 0, 0), Mat |-> "roof", Geo |-> "shapeGeo", Layer |-> "Opaque"],
      [name |-> "rightCyl", lit |-> -1, World |-> ScaleTrans(4, 4, 4, -100, 38, -96), TexTransform |-> ScaleTrans(4, 4, 4, 0, 0, 0), Mat |-> "roof", Geo |-> "shapeGeo", Layer |-> "Opaque"],
      [name |-> "leftCone", lit |-> -1, World |-> ScaleTrans(4, 4, 4, -100, 86, 96), TexTransform |-> ScaleTrans(4, 4, 4, 0, 0, 0), Mat |-> "stone", Geo |-> "shapeGeo", Layer |-> "Opaque"],
      [name |-> "rightCone", lit |-> -1, World |-> ScaleTrans(4, 4, 4, -100, 86, -96), TexTransform |-> ScaleTrans(4, 4, 4, 0, 0, 0), Mat |-> "stone", Geo |-> "shapeGeo", Layer |-> "Opaque"],
      [name |-> "leftSphere", lit |-> -1, World |-> ScaleTrans(4, 4, 4, -100, 98, 96), TexTransform |-> ScaleTrans(4, 4, 4, 0, 0, 0), Mat |-> "ice", Geo |-> "shapeGeo", Layer |-> "Opaque"],
      [name |-> "rightSphere", lit |-> -1, World |-> ScaleTrans(4, 4, 4, -100, 98, -96), TexTransform |-> ScaleTrans(4, 4, 4, 0, 0, 0), Mat |-> "ice", Geo |-> "shapeGeo", Layer |-> "Opaque"],
      [name |-> "leftCyl", lit |-> -1, World |-> ScaleTrans(4, 4, 4, 100, 38, 96), TexTransform |-> ScaleTrans(4, 4, 4, 0, 0, 0), Mat |-> "roof", Geo |-> "shapeGeo", Layer |-> "Opaque"],
      [name |-> "rightCyl", lit |-> -1, World |-> ScaleTrans(4, 4, 4, 100, 38, -96), TexTransform |-> ScaleTrans(4, 4, 4, 0, 0, 0), Mat |-> "roof", Geo |-> "shapeGeo", Layer |-> "Opaque"],
      [name |-> "leftCone", lit |-> -1, World |-> ScaleTrans(4, 4, 4, 100, 86, 96), TexTransform |-> ScaleTrans(4, 4, 4, 0, 0, 0), Mat |-> "stone", Geo |-> "shapeGeo", Layer |-> "Opaque"],
      [name |-> "rightCone", lit |-> -1, World |-> ScaleTrans(4, 4, 4, 100, 86, -96), TexTransform |-> ScaleTrans(4, 4, 4, 0, 0, 0), Mat |-> "stone", Geo |-> "shapeGeo", Layer |-> "Opaque"],
      [name |-> "leftSphere", lit |-> -1, World |-> ScaleTrans(4, 4, 4, 100, 98, 96), TexTransform |-> ScaleTrans(4, 4, 4, 0, 0, 0), Mat |-> "ice", Geo |-> "shapeGeo", Layer |-> "Opaque"],
      [name |-> "rightSphere", lit |-> -1, World |-> ScaleTrans(4, 4, 4, 100, 98, -96), TexTransform |-> ScaleTrans(4, 4, 4, 0, 0, 0), Mat |-> "ice", Geo |-> "shapeGeo", Layer |-> "Opaque"]
   >>

\* ObjCBIndex as BuildRenderItems computes it: the running counter counts
\* only the items that took their index from it.
ObjCBIndexOf(k) ==
    IF RitemSrc[k].lit # -1
    THEN RitemSrc[k].lit
    ELSE Cardinality({j \in 1 .. (k - 1) : RitemSrc[j].lit = -1})

BuildRenderItems ==
    [k \in 1 .. Len(RitemSrc) |->
        [name |-> RitemSrc[k].name,
         ObjCBIndex |-> ObjCBIndexOf(k),
         World |-> RitemSrc[k].World,
         TexTransform |-> RitemSrc[k].TexTransform,
         Mat |-> RitemSrc[k].Mat,
         Geo |-> RitemSrc[k].Geo,
         Layer |-> RitemSrc[k].Layer]]

mAllRitems == BuildRenderItems

Ritems == 1 .. Len(mAllRitems)

mWavesRitem == CHOOSE k \in Ritems : mAllRitems[k].name = "waves"

mRitemLayer(layer) == SelectSeq([k \in Ritems |-> k], LAMBDA k : mAllRitems[k].Layer = layer)

\* BuildMaterials: albedo alpha, FresnelR0 and Roughness in thousandths.
BuildMaterials ==
    [brick       |-> [MatCBIndex |-> 0, DiffuseAlbedo |-> <<1000, 1000, 1000, 1000>>, FresnelR0 |-> 20,  Roughness |-> 200],
     stone       |-> [MatCBIndex |-> 1, DiffuseAlbedo |-> <<1000, 1000, 1000, 1000>>, FresnelR0 |-> 20,  Roughness |-> 300],
     roof        |-> [MatCBIndex |-> 2, DiffuseAlbedo |-> <<1000, 1000, 1000, 1000>>, FresnelR0 |-> 50,  Roughness |-> 200],
     tile        |-> [MatCBIndex |-> 3, DiffuseAlbedo |-> <<1000, 1000, 1000, 1000>>, FresnelR0 |-> 20,  Roughness |-> 100],
     water       |-> [MatCBIndex |-> 4, DiffuseAlbedo |-> <<1000, 1000, 1000, 500>>,  FresnelR0 |-> 200, Roughness |-> 0],
     grass       |-> [MatCBIndex |-> 5, DiffuseAlbedo |-> <<1000, 1000, 1000, 1000>>, FresnelR0 |-> 200, Roughness |-> 100],
     board       |-> [MatCBIndex |-> 6, DiffuseAlbedo |-> <<1000, 1000, 1000, 1000>>, FresnelR0 |-> 200, Roughness |-> 0],
     ice         |-> [MatCBIndex |-> 7, DiffuseAlbedo |-> <<1000, 1000, 1000, 1000>>, FresnelR0 |-> 200, Roughness |-> 0],
     treeSprites |-> [MatCBIndex |-> 8, DiffuseAlbedo |-> <<1000, 1000, 1000, 1000>>, FresnelR0 |-> 10,  Roughness |-> 125]]

mMaterials == BuildMaterials

MatNames == DOMAIN mMaterials

\* the order in which the model walks mMaterials (an unordered_map; the
\* MatCBIndex values are distinct, so the order has no effect on the result)
MatOrder == <<"brick", "stone", "roof", "tile", "water", "treeSprites", "grass", "board", "ice">>

\* the height field Initialize constructs: Waves(128, 128, ...)
mWavesRowCount == 128
mWavesColumnCount == 128
mWavesVertexCount == mWavesRowCount * mWavesColumnCount

\* faulty variant: the frame resources are built before the scene
InitializeOrderFramesFirst ==
    << "BuildWavesGeometry", "BuildFrameResources", "BuildMaterials", "BuildRenderItems" >>

\* the build calls of Initialize that matter for the frame resources, in
\* program order
InitializeOrder ==
    << "BuildWavesGeometry", "BuildMaterials", "BuildRenderItems", "BuildFrameResources" >>

\* the build step a has run when step b starts
BuiltBefore(a, b) ==
    \E i \in 1 .. Len(InitializeOrder) : \E j \in 1 .. Len(InitializeOrder) :
        /\ InitializeOrder[i] = a /\ InitializeOrder[j] = b /\ i < j

\* BuildFrameResources: capacities of one frame resource, mAllRitems.size(),
\* mMaterials.size() and mWaves->VertexCount() at the time it runs
ObjectCount ==
    IF BuiltBefore("BuildRenderItems", "BuildFrameResources") THEN Len(mAllRitems) ELSE 0
MaterialCount ==
    IF BuiltBefore("BuildMaterials", "BuildFrameResources") THEN Cardinality(MatNames) ELSE 0
WavesVBCapacity == mWavesVertexCount

\* ------------------------------------------------------------------- state
VARIABLES
    pc,                      \* the statement of the tick the CPU thread is at
    dt,                      \* gt.DeltaTime() of the current tick
    totalTime,               \* mTimer.TotalTime()
    t_base,                  \* the static accumulator of UpdateWaves
    disturbs,                \* number of mWaves->Disturb calls issued
    lastDisturb,             \* row and column of the current tick's Disturb, if any
    wavesRev,                \* number of mWaves->Update calls made
    mCurrFrameResourceIndex,
    mCurrFrameResource,      \* the slot the pointer designates, NULL for nullptr
    Fence,                   \* FrameResource::Fence of every slot
    mCurrentFence,
    mFence,                  \* mFence->GetCompletedValue()
    mCommandQueue,           \* commands submitted and not yet taken by the GPU
    gpuBusy,                 \* the command list the GPU is executing, if any
    ObjectCB, MaterialCB, PassCB, WavesVB,   \* the upload buffers of every slot
    NumFramesDirty,          \* RenderItem::NumFramesDirty of every render item
    MatNumFramesDirty,       \* Material::NumFramesDirty of every material
    tu, tv,                  \* water MatTransform(3,0) and (3,1)
    VertexBufferGPU,         \* waterGeo->VertexBufferGPU: the slot whose WavesVB it is
    \* history of the run, read only by the properties
    ticks,                   \* number of ticks begun
    log,                     \* the steps of the current tick, in program order
    waited,                  \* the current tick's Update had to wait
    acquired,                \* the slot the current tick's Update selected
    submitted,               \* the slots that have been stamped at least once
    drawSlots,               \* the slot of every Draw so far, oldest first
    stamps,                  \* every fence value stored in a slot so far, oldest first
    signalled,               \* every value handed to mCommandQueue->Signal so far
    sinceChange,             \* material flushes since the water transform last changed
    initFence,               \* mCurrentFence when the tick loop starts
    failure,                 \* the first API call that failed, "none" so far
    \* a height field of its own, driven call by call
    mPrevSolution,           \* the previous height of every cell
    mCurrSolution,           \* the current height of every cell
    mNormals,                \* the normal of every cell
    accumTime,               \* time accumulated towards the next fixed step
    wavesCall,               \* the last call made on the height field
    wavesCalls,              \* number of calls made on the height field
    wavesSteps,              \* number of recurrence steps run so far
    \* BuildWavesGeometry, run quad by quad on a grid of its own
    wavesGeometry            \* its locals m, n, i, j, k and the indices vector

vars == << pc, dt, totalTime, t_base, disturbs, lastDisturb, wavesRev,
           mCurrFrameResourceIndex, mCurrFrameResource, Fence, mCurrentFence,
           mFence, mCommandQueue, gpuBusy, ObjectCB, MaterialCB, PassCB, WavesVB,
           NumFramesDirty, MatNumFramesDirty, tu, tv, VertexBufferGPU,
           ticks, log, waited, acquired, submitted, drawSlots, stamps, signalled,
           sinceChange, initFence, failure,
           mPrevSolution, mCurrSolution, mNormals, accumTime,
           wavesCall, wavesCalls, wavesSteps, wavesGeometry >>

wavesVars == << mPrevSolution, mCurrSolution, mNormals, accumTime,
                wavesCall, wavesCalls, wavesSteps >>

cpuData == << dt, totalTime, t_base, disturbs, lastDisturb, wavesRev, ObjectCB, MaterialCB, PassCB,
              WavesVB, NumFramesDirty, MatNumFramesDirty, tu, tv, VertexBufferGPU,
              sinceChange >>
ringVars == << mCurrFrameResourceIndex, mCurrFrameResource, Fence, mCurrentFence >>
histVars == << ticks, waited, acquired, submitted, drawSlots, stamps, signalled, initFence,
              failure, wavesVars, wavesGeometry >>

\* ------------------------------------------------------- constant records
MatTransform(name) ==
    IF name = "water"
    THEN [Identity4x4(TexOne) EXCEPT ![4] = <<tu, tv, 0, TexOne>>]
    ELSE Identity4x4(TexOne)

\* the ObjectConstants UpdateObjectCBs builds for render item k
ObjectConstants(k) ==
    [World |-> XMMatrixTranspose(mAllRitems[k].World),
     TexTransform |-> XMMatrixTranspose(mAllRitems[k].TexTransform)]

\* the MaterialConstants UpdateMaterialCBs builds for a material
MaterialConstants(name) ==
    [DiffuseAlbedo |-> mMaterials[name].DiffuseAlbedo,
     FresnelR0 |-> mMaterials[name].FresnelR0,
     Roughness |-> mMaterials[name].Roughness,
     MatTransform |-> XMMatrixTranspose(MatTransform(name))]

\* what a freshly created upload buffer element holds
BlankObject == [World |-> ZeroMatrix, TexTransform |-> ZeroMatrix]
BlankMaterial ==
    [DiffuseAlbedo |-> <<0, 0, 0, 0>>, FresnelR0 |-> 0, Roughness |-> 0,
     MatTransform |-> ZeroMatrix]
BlankPass == [TotalTime |-> 0, DeltaTime |-> 0]

\* A dynamic vertex buffer is kept as runs of vertices: the elements lo .. hi
\* hold the positions and normals of the height field after rev Update calls
\* and disturbs Disturb calls (0 and 0: never written).
BlankVertices == << [lo |-> 0, hi |-> WavesVBCapacity - 1, rev |-> 0, disturbs |-> 0] >>

\* what is left of the runs of buf outside lo .. hi
RECURSIVE OutsideRuns(_, _, _)
OutsideRuns(buf, lo, hi) ==
    IF buf = << >> THEN << >>
    ELSE LET run == Head(buf)
             left == IF run.lo < lo
                     THEN << [run EXCEPT !.hi = IF run.hi < lo THEN run.hi ELSE lo - 1] >>
                     ELSE << >>
             right == IF run.hi > hi
                      THEN << [run EXCEPT !.lo = IF run.lo > hi THEN run.lo ELSE hi + 1] >>
                      ELSE << >>
         IN  left \o right \o OutsideRuns(Tail(buf), lo, hi)

\* currWavesVB->CopyData(i, v) for every i of lo .. hi, v being the vertex i
\* of the solution (rev, disturbs)
CopyVertices(buf, lo, hi, rev, dis) ==
    LET out == OutsideRuns(buf, lo, hi)
    IN  IF lo > hi THEN buf
        ELSE SelectSeq(out, LAMBDA run : run.hi < lo)
             \o << [lo |-> lo, hi |-> hi, rev |-> rev, disturbs |-> dis] >>
             \o SelectSeq(out, LAMBDA run : run.lo > hi)

Step(op, slot) == [op |-> op, slot |-> slot]

\* no Disturb call in the tick so far
NoDisturb == [row |-> NULL, col |-> NULL]

\* ------------------------------------------------------ the height field
\* The wave simulator on the grid of the reference scenario: 6 x 6 cells,
\* spatial step 1.0, time step 0.25 s, speed 2.0, damping 0.1.  Heights are
\* exact: 1.0 is HeightOne = 4 * KDen^4, so that a quarter of a magnitude and
\* up to four divisions by KDen leave no remainder.
NumRows == 6
NumCols == 6
SpatialStep == 1
TimeStepDen == 4
WaveSpeed == 2
DampingNum == 1
DampingDen == 10

\* the time step in eighths of a second
TimeStep == 8 \div TimeStepDen

\* damping * timeStep = DampDtNum / DampDtDen,
\* speed^2 * timeStep^2 / spatialStep^2 = ENum / EDen
DampDtNum == DampingNum
DampDtDen == DampingDen * TimeStepDen
ENum == WaveSpeed * WaveSpeed
EDen == TimeStepDen * TimeStepDen * SpatialStep * SpatialStep

\* the coefficients of the three-term recurrence
\*    next = k1*prev + k2*curr + k3*(sum of the four neighbours)
\* with d = damping*dt + 2, e = speed^2*dt^2/dx^2:
\*    k1 = (damping*dt - 2)/d, k2 = (4 - 8e)/d, k3 = 2e/d,
\* held as K1/KDen, K2/KDen, K3/KDen
KDen == DampDtNum + 2 * DampDtDen
K1 == DampDtNum - 2 * DampDtDen
K2 == (DampDtDen * (4 * EDen - 8 * ENum)) \div EDen
K3 == (2 * ENum * DampDtDen) \div EDen

\* the number of recurrence steps the height unit keeps exact
ExactSteps == 4

HeightOne == 4 * KDen ^ ExactSteps

Cells == (0 .. (NumRows - 1)) \X (0 .. (NumCols - 1))

VertexCount == NumRows * NumCols

\* the cell of vertex index i: row i / C, column i % C
CellOf(i) == << i \div NumCols, i % NumCols >>

Boundary(c) == c[1] \in {0, NumRows - 1} \/ c[2] \in {0, NumCols - 1}

\* faulty variant: only the row is tested
NearBoundaryRowOnly(i, j) == i < 2 \/ i > NumRows - 3

\* row or column within 1 of a boundary
NearBoundary(i, j) == i < 2 \/ i > NumRows - 3 \/ j < 2 \/ j > NumCols - 3

Neighbours(c) ==
    { <<c[1] - 1, c[2]>>, <<c[1] + 1, c[2]>>, <<c[1], c[2] - 1>>, <<c[1], c[2] + 1>> }

\* central differences inside, one-sided differences on the border; the
\* normal is kept unnormalised as (-dh/dx, 1, -dh/dz) * 2 * spatialStep
WavesNormals(h) ==
    [c \in Cells |->
        LET i == c[1]
            j == c[2]
            nx == IF j = 0 THEN 2 * (h[<<i, 0>>] - h[<<i, 1>>])
                  ELSE IF j = NumCols - 1 THEN 2 * (h[<<i, j - 1>>] - h[<<i, j>>])
                  ELSE h[<<i, j - 1>>] - h[<<i, j + 1>>]
            nz == IF i = 0 THEN 2 * (h[<<0, j>>] - h[<<1, j>>])
                  ELSE IF i = NumRows - 1 THEN 2 * (h[<<i - 1, j>>] - h[<<i, j>>])
                  ELSE h[<<i - 1, j>>] - h[<<i + 1, j>>]
        IN  << nx, 2 * SpatialStep * HeightOne, nz >>]

\* Construct: heights zero, zero normals, no time accumulated
Flat ==
    [prev |-> [c \in Cells |-> 0], curr |-> [c \in Cells |-> 0],
     normals |-> [c \in Cells |-> <<0, 0, 0>>], t |-> 0]

\* faulty variant: the neighbours rise by half the magnitude
SpreadHalf(magnitude) == magnitude \div 2

\* the rise of each 4-neighbour of a disturbed cell: a quarter of the magnitude
Spread(magnitude) == magnitude \div 4

\* Disturb(row, col, magnitude) on the height field w
WavesDisturb(w, i, j, magnitude) ==
    IF NearBoundary(i, j) THEN w
    ELSE [w EXCEPT !.curr =
             [c \in Cells |->
                 IF c = <<i, j>> THEN w.curr[c] + magnitude
                 ELSE IF c \in Neighbours(<<i, j>>) THEN w.curr[c] + Spread(magnitude)
                 ELSE w.curr[c]]]

\* the sum of k * x over the four neighbours of cell c, x the height / KDen
NeighbourSum(h, c) ==
    (h[<<c[1] - 1, c[2]>>] \div KDen) + (h[<<c[1] + 1, c[2]>>] \div KDen)
  + (h[<<c[1], c[2] - 1>>] \div KDen) + (h[<<c[1], c[2] + 1>>] \div KDen)

\* one step of the recurrence over the interior cells; the buffers swap
WavesStep(w) ==
    [w EXCEPT
       !.prev = w.curr,
       !.curr = [c \in Cells |->
                    IF Boundary(c) THEN w.curr[c]
                    ELSE K1 * (w.prev[c] \div KDen) + K2 * (w.curr[c] \div KDen)
                         + K3 * NeighbourSum(w.curr, c)]]

RECURSIVE WavesSteps(_, _)
WavesSteps(w, n) == IF n = 0 THEN w ELSE WavesSteps(WavesStep(w), n - 1)

\* faulty variant: at most one step per call, the rest of the time is dropped
StepsDueAtMostOne(t) == IF t >= TimeStep THEN 1 ELSE 0

\* faulty variant: a call always runs a step
StepsDueAlways(t) == IF t >= TimeStep THEN t \div TimeStep ELSE 1

\* the number of fixed steps due once t has accumulated
StepsDue(t) == t \div TimeStep

\* Update(dt) on the height field w
WavesUpdate(w, d) ==
    LET acc == w.t + d
        n == StepsDue(acc)
        stepped == WavesSteps(w, n)
    IN  [stepped EXCEPT !.t = IF n > 0 THEN acc - n * TimeStep ELSE acc,
                        !.normals = WavesNormals(stepped.curr)]

\* ------------------------------------------- the index buffer of the water
\* BuildWavesGeometry on a grid of m rows and n columns, m and n drawn from
\* GridSizes.  The locals keep their names; indices[p] of the source is
\* indices[p + 1] here, NULL while unwritten; past records a write at or
\* beyond the end of the vector; quads lists the (i, j) the loop body ran for.
GridSizes == 2 .. MaxGrid

\* Waves::TriangleCount(): two triangles for every quad of the grid
WavesTriangleCount(m, n) == (m - 1) * (n - 1) * 2

NotBuilt ==
    [m |-> 0, n |-> 0, i |-> 0, j |-> 0, k |-> 0, indices |-> << >>,
     past |-> FALSE, quads |-> << >>]

\* std::vector<std::uint32_t> indices(3 * mWaves->TriangleCount()); k = 0
GeometryLocals(m, n) ==
    [m |-> m, n |-> n, i |-> 0, j |-> 0, k |-> 0,
     indices |-> [p \in 1 .. (3 * WavesTriangleCount(m, n)) |-> NULL],
     past |-> FALSE, quads |-> << >>]

\* faulty variant: the last corner of the quad is taken one column too far
QuadIndicesWide(i, j, n) ==
    << i * n + j, i * n + j + 1, (i + 1) * n + j,
       (i + 1) * n + j, i * n + j + 1, (i + 1) * n + j + 2 >>

\* the six values the loop body stores at indices[k] .. indices[k + 5]
QuadIndices(i, j, n) ==
    << i * n + j, i * n + j + 1, (i + 1) * n + j,
       (i + 1) * n + j, i * n + j + 1, (i + 1) * n + j + 1 >>

\* indices[p] = v
StoreIndex(g, p, v) ==
    IF p < Len(g.indices)
    THEN [g EXCEPT !.indices[p + 1] = v]
    ELSE [g EXCEPT !.past = TRUE]

\* the stores of one loop body, from the r-th on
RECURSIVE StoreQuad(_, _, _)
StoreQuad(g, q, r) ==
    IF r > Len(q) THEN g
    ELSE StoreQuad(StoreIndex(g, g.k + r - 1, q[r]), q, r + 1)

\* faulty variant: the outer loop runs for the last row of vertices too
RowLoopRunsToLastRow(i, m) == i < m

\* for (int i = 0; i < m - 1; ++i)
RowLoopRuns(i, m) == i < m - 1

\* for (int j = 0; j < n - 1; ++j)
ColLoopRuns(j, n) == j < n - 1

\* ------------------------------------------------------------------- Init
\* The state when Run starts ticking: Initialize has built the scene and the
\* frame resources and has flushed the queue, so the GPU has completed every
\* fence value issued so far.
Init ==
    /\ pc = "Update"
    /\ dt = 0 /\ totalTime = 0 /\ t_base = 0 /\ disturbs = 0 /\ wavesRev = 0
    /\ lastDisturb = NoDisturb
    /\ mCurrFrameResourceIndex = 0
    /\ mCurrFrameResource = NULL
    /\ Fence = [s \in FrameSlots |-> 0]
    /\ initFence \in 0 .. MaxInitFence
    /\ mCurrentFence = initFence
    /\ mFence = initFence
    /\ mCommandQueue = << >>
    /\ gpuBusy = << >>
    /\ ObjectCB = [s \in FrameSlots |-> [i \in 0 .. (ObjectCount - 1) |-> BlankObject]]
    /\ MaterialCB = [s \in FrameSlots |-> [i \in 0 .. (MaterialCount - 1) |-> BlankMaterial]]
    /\ PassCB = [s \in FrameSlots |-> BlankPass]
    /\ WavesVB = [s \in FrameSlots |-> BlankVertices]
    /\ NumFramesDirty = [k \in Ritems |-> gNumFrameResources]
    /\ MatNumFramesDirty = [m \in MatNames |-> gNumFrameResources]
    /\ tu = 0 /\ tv = 0
    /\ VertexBufferGPU = NULL
    /\ ticks = 0 /\ log = << >> /\ waited = FALSE /\ acquired = NULL
    /\ submitted = {} /\ drawSlots = << >> /\ stamps = << >> /\ signalled = {}
    /\ sinceChange = 0
    /\ failure = "none"
    /\ mPrevSolution = Flat.prev /\ mCurrSolution = Flat.curr /\ mNormals = Flat.normals
    /\ accumTime = Flat.t
    /\ wavesCall = [op |-> "Construct", row |-> NULL, col |-> NULL, arg |-> 0]
    /\ wavesCalls = 0 /\ wavesSteps = 0
    /\ wavesGeometry = NotBuilt

\* faulty variant: the test of the slot's fence is skipped
NeedsWaitNever(f, c) == FALSE

\* ------------------------------------------------------------ the CPU tick
\* Update: "has the GPU finished processing the commands of the current
\* frame resource?"  f is the slot's stored fence, c the completed value.
NeedsWait(f, c) == f # 0 /\ c < f

\* faulty variant: the wait is released one fence value early
WaitOverEarly(f, c) == c >= f - 1

\* SetEventOnCompletion(f) + WaitForSingleObject: released once the fence
\* object has reached f.
WaitOver(f, c) == c >= f

\* faulty variant: the cursor skips a slot
NextFrameResourceIndexSkip(i) == (i + 2) % gNumFrameResources

NextFrameResourceIndex(i) == (i + 1) % gNumFrameResources

\* faulty variant: the fence counter is bumped twice
AdvanceFenceTwice(f) == f + 2

\* ++mCurrentFence
AdvanceFence(f) == f + 1

\* faulty variant: the queue is asked to signal a value that never advances
SignalValueStale(f) == 0

\* the value Draw hands to mCommandQueue->Signal
SignalValue(f) == f

\* faulty variant: the animation forgets to mark the material dirty
MarkDirtyKeep(n) == n

\* what AnimateMaterials stores in waterMat->NumFramesDirty
MarkDirty(n) == gNumFrameResources

\* faulty variant: the frame is drawn before the waves are updated
TickOrderDrawFirst ==
    << "AnimateMaterials", "UpdateObjectCBs", "UpdateMaterialCBs",
       "UpdateMainPassCB", "Draw", "UpdateWaves", "Stamp", "Signal" >>

\* the tick in program order: the calls of Update after the slot has been
\* acquired, then Draw (record and submit, stamp, signal)
TickOrder ==
    << "AnimateMaterials", "UpdateObjectCBs", "UpdateMaterialCBs",
       "UpdateMainPassCB", "UpdateWaves", "Draw", "Stamp", "Signal" >>

NextPc(p) ==
    LET i == CHOOSE j \in 1 .. Len(TickOrder) : TickOrder[j] = p
    IN  IF i = Len(TickOrder) THEN "Update" ELSE TickOrder[i + 1]

\* Update up to and including the wait test: the timer has ticked, the ring
\* cursor moves on and the slot's fence is compared with the GPU's.
UpdateTick(deltas) ==
    /\ pc = "Update"
    /\ ticks < MaxTicks
    /\ \E d \in deltas : dt' = d /\ totalTime' = totalTime + d
    /\ mCurrFrameResourceIndex' = NextFrameResourceIndex(mCurrFrameResourceIndex)
    /\ mCurrFrameResource' = mCurrFrameResourceIndex'
    /\ waited' = NeedsWait(Fence[mCurrFrameResource'], mFence)
    /\ pc' = IF waited' THEN "Wait" ELSE TickOrder[1]
    /\ ticks' = ticks + 1
    /\ acquired' = mCurrFrameResource'
    /\ log' = << Step("Acquire", mCurrFrameResource') >>
    /\ lastDisturb' = NoDisturb
    /\ UNCHANGED << t_base, disturbs, wavesRev, Fence, mCurrentFence, mFence,
                    mCommandQueue, gpuBusy, ObjectCB, MaterialCB, PassCB, WavesVB,
                    NumFramesDirty, MatNumFramesDirty, tu, tv, VertexBufferGPU,
                    submitted, drawSlots, stamps, signalled, sinceChange, initFence,
                    failure, wavesVars, wavesGeometry >>

Update == UpdateTick(DtSet)

\* the same tick under a steady frame time of a quarter second
UpdateSteady == UpdateTick({QuarterSecond})

\* the body of the if: the thread sleeps on the event until the fence is reached
Wait ==
    /\ pc = "Wait"
    /\ WaitOver(Fence[mCurrFrameResource], mFence)
    /\ pc' = TickOrder[1]
    /\ UNCHANGED << cpuData, ringVars, histVars, log, mFence, mCommandQueue, gpuBusy >>

Wrap(x) == IF x >= TexOne THEN x - TexOne ELSE x

AnimateMaterials ==
    /\ pc = "AnimateMaterials"
    /\ tu' = Wrap(tu + TuPerDt * dt)
    /\ tv' = Wrap(tv + TvPerDt * dt)
    /\ MatNumFramesDirty' = [MatNumFramesDirty EXCEPT !["water"] = MarkDirty(@)]
    /\ sinceChange' = IF tu' # tu \/ tv' # tv THEN 0 ELSE sinceChange
    /\ log' = Append(log, Step("AnimateMaterials", NULL))
    /\ pc' = NextPc(pc)
    /\ UNCHANGED << dt, totalTime, t_base, disturbs, lastDisturb, wavesRev, ObjectCB, MaterialCB,
                    PassCB, WavesVB, NumFramesDirty, VertexBufferGPU,
                    ringVars, histVars, mFence, mCommandQueue, gpuBusy >>

\* faulty variant: the counter is left as it was after the copy
NextFramesDirtyKeep(n) == n

\* faulty variant: the item is marked clean after its first copy
NextFramesDirtyClear(n) == 0

\* NumFramesDirty-- after the copy into the current slot
NextFramesDirty(n) == n - 1

\* the loop of UpdateObjectCBs over mAllRitems from item k on; cb is the
\* current slot's ObjectCB, dirty the NumFramesDirty of all items
RECURSIVE ObjectCBLoop(_, _, _)
ObjectCBLoop(k, cb, dirty) ==
    IF k > Len(mAllRitems) THEN [cb |-> cb, dirty |-> dirty]
    ELSE IF dirty[k] > 0
         THEN ObjectCBLoop(k + 1,
                           [cb EXCEPT ![mAllRitems[k].ObjCBIndex] = ObjectConstants(k)],
                           [dirty EXCEPT ![k] = NextFramesDirty(@)])
         ELSE ObjectCBLoop(k + 1, cb, dirty)

UpdateObjectCBs ==
    /\ pc = "UpdateObjectCBs"
    /\ LET r == ObjectCBLoop(1, ObjectCB[mCurrFrameResource], NumFramesDirty)
       IN  /\ ObjectCB' = [ObjectCB EXCEPT ![mCurrFrameResource] = r.cb]
           /\ NumFramesDirty' = r.dirty
    /\ log' = Append(log, Step("UpdateObjectCBs", mCurrFrameResource))
    /\ pc' = NextPc(pc)
    /\ UNCHANGED << dt, totalTime, t_base, disturbs, lastDisturb, wavesRev, MaterialCB, PassCB,
                    WavesVB, MatNumFramesDirty, tu, tv, VertexBufferGPU, sinceChange,
                    ringVars, histVars, mFence, mCommandQueue, gpuBusy >>

\* the loop of UpdateMaterialCBs over mMaterials
RECURSIVE MaterialCBLoop(_, _, _)
MaterialCBLoop(k, cb, dirty) ==
    IF k > Len(MatOrder) THEN [cb |-> cb, dirty |-> dirty]
    ELSE LET mat == MatOrder[k]
         IN  IF dirty[mat] > 0
             THEN MaterialCBLoop(k + 1,
                                 [cb EXCEPT ![mMaterials[mat].MatCBIndex] = MaterialConstants(mat)],
                                 [dirty EXCEPT ![mat] = NextFramesDirty(@)])
             ELSE MaterialCBLoop(k + 1, cb, dirty)

UpdateMaterialCBs ==
    /\ pc = "UpdateMaterialCBs"
    /\ LET r == MaterialCBLoop(1, MaterialCB[mCurrFrameResource], MatNumFramesDirty)
       IN  /\ MaterialCB' = [MaterialCB EXCEPT ![mCurrFrameResource] = r.cb]
           /\ MatNumFramesDirty' = r.dirty
    /\ sinceChange' = IF sinceChange < gNumFrameResources THEN sinceChange + 1 ELSE sinceChange
    /\ log' = Append(log, Step("UpdateMaterialCBs", mCurrFrameResource))
    /\ pc' = NextPc(pc)
    /\ UNCHANGED << dt, totalTime, t_base, disturbs, lastDisturb, wavesRev, ObjectCB, PassCB,
                    WavesVB, NumFramesDirty, tu, tv, VertexBufferGPU,
                    ringVars, histVars, mFence, mCommandQueue, gpuBusy >>

\* UpdateMainPassCB: of the pass block only the timing fields vary with the
\* state kept here (the camera is driven by input outside this model)
UpdateMainPassCB ==
    /\ pc = "UpdateMainPassCB"
    /\ PassCB' = [PassCB EXCEPT ![mCurrFrameResource] =
                     [TotalTime |-> totalTime, DeltaTime |-> dt]]
    /\ log' = Append(log, Step("UpdateMainPassCB", mCurrFrameResource))
    /\ pc' = NextPc(pc)
    /\ UNCHANGED << dt, totalTime, t_base, disturbs, lastDisturb, wavesRev, ObjectCB, MaterialCB,
                    WavesVB, NumFramesDirty, MatNumFramesDirty, tu, tv,
                    VertexBufferGPU, sinceChange,
                    ringVars, histVars, mFence, mCommandQueue, gpuBusy >>

\* faulty variant: the copy loop stops one vertex early
WavesCopyRangeShort == << 0, mWavesVertexCount - 2 >>

\* for (int i = 0; i < mWaves->VertexCount(); ++i)
WavesCopyRange == << 0, mWavesVertexCount - 1 >>

\* faulty variant: the water geometry is bound once and never rebound
BoundWavesVBOnce(cur, old) == IF old = NULL THEN cur ELSE old

\* the vertex buffer UpdateWaves leaves in waterGeo->VertexBufferGPU: cur is
\* the current slot, old the binding before the call
BoundWavesVB(cur, old) == cur

\* two successive values of rand(), chosen to reach both ends of the range
\* and the wrap of the remainder
RandOutcomes == { << 119, 120 >>, << 120, 119 >> }

\* MathHelper::Rand(a, b): a + rand() % ((b - a) + 1), r being rand()
Rand(a, b, r) == a + (r % ((b - a) + 1))

\* Waves::Disturb on a grid of rows x cols rejects a cell within 1 of a boundary
DisturbRejected(i, j, rows, cols) == i < 2 \/ i > rows - 3 \/ j < 2 \/ j > cols - 3

\* faulty variant: the rows up to the last one are targeted
DisturbRowRangeToEdge == << 4, mWavesRowCount - 1 >>

\* int i = MathHelper::Rand(4, mWaves->RowCount() - 5)
DisturbRowRange == << 4, mWavesRowCount - 5 >>

\* int j = MathHelper::Rand(4, mWaves->ColumnCount() - 5)
DisturbColRange == << 4, mWavesColumnCount - 5 >>

\* faulty variant: a wave only once more than a quarter second has passed
WaveDueLate(total, base) == total - base > QuarterSecond

\* (mTimer.TotalTime() - t_base) >= 0.25f
WaveDue(total, base) == total - base >= QuarterSecond

\* UpdateWaves: a disturbance when a quarter second has accumulated, the
\* simulation step, the copy of every vertex into the slot's WavesVB and the
\* rebinding of the water geometry.  The height field itself is kept as the
\* pair (number of Update calls, number of Disturb calls) that identifies its
\* solution.
UpdateWaves ==
    /\ pc = "UpdateWaves"
    /\ IF WaveDue(totalTime, t_base)
       THEN /\ t_base' = t_base + QuarterSecond
            /\ \E r \in RandOutcomes :
                  lastDisturb' = [row |-> Rand(DisturbRowRange[1], DisturbRowRange[2], r[1]),
                                  col |-> Rand(DisturbColRange[1], DisturbColRange[2], r[2])]
            /\ disturbs' = disturbs + 1
       ELSE UNCHANGED << t_base, disturbs, lastDisturb >>
    /\ wavesRev' = wavesRev + 1
    /\ WavesVB' = [WavesVB EXCEPT ![mCurrFrameResource] =
                      CopyVertices(@, WavesCopyRange[1], WavesCopyRange[2],
                                   wavesRev', disturbs')]
    /\ VertexBufferGPU' = BoundWavesVB(mCurrFrameResource, VertexBufferGPU)
    /\ log' = log \o << Step("Waves.Update", NULL),
                        Step("WavesVB.CopyData", mCurrFrameResource) >>
    /\ pc' = NextPc(pc)
    /\ UNCHANGED << dt, totalTime, ObjectCB, MaterialCB, PassCB, NumFramesDirty,
                    MatNumFramesDirty, tu, tv, sinceChange,
                    ringVars, histVars, mFence, mCommandQueue, gpuBusy >>

\* ------------------------------------------------------------------- Draw
\* the vertex buffer a render item's geometry hands to IASetVertexBuffers:
\* the water geometry's is the dynamic one, the others are static
VertexBufferView(k) ==
    [geo |-> mAllRitems[k].Geo,
     slot |-> IF mAllRitems[k].Geo = "waterGeo" THEN VertexBufferGPU ELSE NULL]

\* DrawRenderItems: one draw per item of the layer, bound to the object and
\* material constants of the frame resource fr
DrawRenderItems(layer, fr) ==
    LET ritems == mRitemLayer(layer)
    IN  [i \in 1 .. Len(ritems) |->
            [cmd |-> "DrawIndexedInstanced",
             ritem |-> ritems[i],
             vb |-> VertexBufferView(ritems[i]),
             objCB |-> [slot |-> fr, index |-> mAllRitems[ritems[i]].ObjCBIndex],
             matCB |-> [slot |-> fr,
                        index |-> mMaterials[mAllRitems[ritems[i]].Mat].MatCBIndex]]]

Barrier(before, after) == [cmd |-> "ResourceBarrier", before |-> before, after |-> after]

\* the command list Draw records for the frame resource fr
RecordCommands(fr) ==
       << Barrier("PRESENT", "RENDER_TARGET"),
          [cmd |-> "Clear"],
          [cmd |-> "SetPassCB", slot |-> fr] >>
    \o DrawRenderItems("Opaque", fr)
    \o DrawRenderItems("AlphaTested", fr)
    \o DrawRenderItems("AlphaTestedTreeSprites", fr)
    \o << Barrier("RENDER_TARGET", "PRESENT") >>
    \o DrawRenderItems("Transparent", fr)
    \o << Barrier("RENDER_TARGET", "PRESENT") >>

\* Draw up to Present: the slot's allocator is reset, the list recorded on it
\* and handed to the queue
Draw ==
    /\ pc = "Draw"
    /\ mCommandQueue' = Append(mCommandQueue,
                               [type |-> "Exec",
                                alloc |-> mCurrFrameResource,
                                cmds |-> RecordCommands(mCurrFrameResource)])
    /\ drawSlots' = Append(drawSlots, mCurrFrameResource)
    /\ log' = log \o << Step("CmdListAlloc.Reset", mCurrFrameResource),
                        Step("ExecuteCommandLists", mCurrFrameResource) >>
    /\ pc' = NextPc(pc)
    /\ UNCHANGED << cpuData, ringVars, mFence, gpuBusy, ticks, waited, acquired,
                    submitted, stamps, signalled, initFence,
                    failure, wavesVars, wavesGeometry >>

\* mCurrFrameResource->Fence = ++mCurrentFence
Stamp ==
    /\ pc = "Stamp"
    /\ mCurrentFence' = AdvanceFence(mCurrentFence)
    /\ Fence' = [Fence EXCEPT ![mCurrFrameResource] = mCurrentFence']
    /\ stamps' = Append(stamps, mCurrentFence')
    /\ submitted' = submitted \cup {mCurrFrameResource}
    /\ log' = Append(log, Step("Stamp", mCurrFrameResource))
    /\ pc' = NextPc(pc)
    /\ UNCHANGED << cpuData, mCurrFrameResourceIndex, mCurrFrameResource, mFence,
                    mCommandQueue, gpuBusy, ticks, waited, acquired, drawSlots,
                    signalled, initFence,
                    failure, wavesVars, wavesGeometry >>

\* mCommandQueue->Signal(mFence.Get(), mCurrentFence)
Signal ==
    /\ pc = "Signal"
    /\ mCommandQueue' = Append(mCommandQueue,
                               [type |-> "Signal", value |-> SignalValue(mCurrentFence)])
    /\ signalled' = signalled \cup {SignalValue(mCurrentFence)}
    /\ log' = Append(log, Step("Signal", mCurrFrameResource))
    /\ pc' = NextPc(pc)
    /\ UNCHANGED << cpuData, ringVars, mFence, gpuBusy, ticks, waited, acquired,
                    submitted, drawSlots, stamps, initFence,
                    failure, wavesVars, wavesGeometry >>

\* ---------------------------------------------------------------- the GPU
\* The queue is served in order.  A command list occupies the GPU from
\* GPUBegin to GPUEnd; a signal sets the fence object once everything before
\* it has finished.
GPUBegin ==
    /\ gpuBusy = << >>
    /\ mCommandQueue # << >>
    /\ Head(mCommandQueue).type = "Exec"
    /\ gpuBusy' = << Head(mCommandQueue) >>
    /\ mCommandQueue' = Tail(mCommandQueue)
    /\ UNCHANGED << pc, cpuData, ringVars, histVars, log, mFence >>

GPUEnd ==
    /\ gpuBusy # << >>
    /\ gpuBusy' = << >>
    /\ UNCHANGED << pc, cpuData, ringVars, histVars, log, mFence, mCommandQueue >>

GPUSignal ==
    /\ gpuBusy = << >>
    /\ mCommandQueue # << >>
    /\ Head(mCommandQueue).type = "Signal"
    /\ mFence' = Head(mCommandQueue).value
    /\ mCommandQueue' = Tail(mCommandQueue)
    /\ UNCHANGED << pc, cpuData, ringVars, histVars, log, gpuBusy >>

CPU ==
    \/ Update \/ Wait \/ AnimateMaterials \/ UpdateObjectCBs \/ UpdateMaterialCBs
    \/ UpdateMainPassCB \/ UpdateWaves \/ Draw \/ Stamp \/ Signal

GPU == GPUBegin \/ GPUEnd \/ GPUSignal

Next == CPU \/ GPU

Spec == Init /\ [][Next]_vars

CPUSteady ==
    \/ UpdateSteady \/ Wait \/ AnimateMaterials \/ UpdateObjectCBs \/ UpdateMaterialCBs
    \/ UpdateMainPassCB \/ UpdateWaves \/ Draw \/ Stamp \/ Signal

NextSteady == CPUSteady \/ GPU

\* Progress is studied under a steady frame time: the CPU thread runs
\* whenever it is not blocked, and the GPU keeps serving its queue.
FairSpec == Init /\ [][NextSteady]_vars /\ WF_vars(CPUSteady) /\ WF_vars(GPU)

\* ------------------------------------------------------- ticks after a stall
\* delta times of 0, 0.5 and 20 seconds: a frame that took no measurable
\* time, one twice as long as the wave period, and one after the thread was
\* held up for a long while
StallDtSet == {0, 4, 160}

UpdateStall == UpdateTick(StallDtSet)

CPUStall ==
    \/ UpdateStall \/ Wait \/ AnimateMaterials \/ UpdateObjectCBs \/ UpdateMaterialCBs
    \/ UpdateMainPassCB \/ UpdateWaves \/ Draw \/ Stamp \/ Signal

NextStall == CPUStall \/ GPU

StallSpec == Init /\ [][NextStall]_vars

\* ------------------------------------------------------- failing API calls
\* One call of the tick returns a failure.  ThrowIfFailed turns a failed
\* HRESULT into a DxException that leaves Run and is caught in WinMain: the
\* tick loop is over (pc = "Fatal").  A call whose result is not looked at
\* lets the tick go on.

\* ThrowIfFailed(mFence->SetEventOnCompletion(...))
AfterSetEventFailure == "Fatal"

\* WaitForSingleObject(eventHandle, INFINITE); the return value is discarded
AfterWaitFailure == TickOrder[1]

\* ThrowIfFailed(mSwapChain->Present(0, 0))
AfterPresentFailure == "Fatal"

\* mCommandQueue->Signal(mFence.Get(), mCurrentFence); the HRESULT is discarded
AfterSignalFailure == NextPc("Signal")

SetEventOnCompletionFails ==
    /\ pc = "Wait" /\ failure = "none"
    /\ failure' = "SetEventOnCompletion"
    /\ pc' = AfterSetEventFailure
    /\ UNCHANGED << cpuData, ringVars, mFence, mCommandQueue, gpuBusy, log, ticks, waited,
                    acquired, submitted, drawSlots, stamps, signalled, initFence, wavesVars,
                    wavesGeometry >>

WaitForSingleObjectFails ==
    /\ pc = "Wait" /\ failure = "none"
    /\ failure' = "WaitForSingleObject"
    /\ pc' = AfterWaitFailure
    /\ UNCHANGED << cpuData, ringVars, mFence, mCommandQueue, gpuBusy, log, ticks, waited,
                    acquired, submitted, drawSlots, stamps, signalled, initFence, wavesVars,
                    wavesGeometry >>

\* the calls of Draw under ThrowIfFailed that come before ExecuteCommandLists
DrawCallsBeforeExecute == << "CmdListAlloc.Reset", "CommandList.Reset", "CommandList.Close" >>

\* one of them fails: what ran before it has run, nothing reaches the queue
DrawFails ==
    /\ pc = "Draw" /\ failure = "none"
    /\ \E i \in 1 .. Len(DrawCallsBeforeExecute) :
          /\ failure' = DrawCallsBeforeExecute[i]
          /\ log' = IF i = 1 THEN log
                    ELSE Append(log, Step("CmdListAlloc.Reset", mCurrFrameResource))
    /\ pc' = "Fatal"
    /\ UNCHANGED << cpuData, ringVars, mFence, mCommandQueue, gpuBusy, ticks, waited,
                    acquired, submitted, drawSlots, stamps, signalled, initFence, wavesVars,
                    wavesGeometry >>

\* Present fails: the command list is already in the queue
PresentFails ==
    /\ pc = "Draw" /\ failure = "none"
    /\ failure' = "Present"
    /\ mCommandQueue' = Append(mCommandQueue,
                               [type |-> "Exec",
                                alloc |-> mCurrFrameResource,
                                cmds |-> RecordCommands(mCurrFrameResource)])
    /\ drawSlots' = Append(drawSlots, mCurrFrameResource)
    /\ log' = log \o << Step("CmdListAlloc.Reset", mCurrFrameResource),
                        Step("ExecuteCommandLists", mCurrFrameResource) >>
    /\ pc' = AfterPresentFailure
    /\ UNCHANGED << cpuData, ringVars, mFence, gpuBusy, ticks, waited, acquired,
                    submitted, stamps, signalled, initFence, wavesVars,
                    wavesGeometry >>

\* Signal fails: no fence point is added to the queue
SignalFails ==
    /\ pc = "Signal" /\ failure = "none"
    /\ failure' = "Signal"
    /\ log' = Append(log, Step("Signal", mCurrFrameResource))
    /\ pc' = AfterSignalFailure
    /\ UNCHANGED << cpuData, ringVars, mFence, mCommandQueue, gpuBusy, ticks, waited,
                    acquired, submitted, drawSlots, stamps, signalled, initFence, wavesVars,
                    wavesGeometry >>

Faults ==
    \/ SetEventOnCompletionFails \/ WaitForSingleObjectFails
    \/ DrawFails \/ PresentFails \/ SignalFails

FaultNext == CPUSteady \/ GPU \/ Faults

\* the tick loop under a steady frame time with at most one failing call
FaultSpec == Init /\ [][FaultNext]_vars

\* ----------------------------------------- the height field, call by call
appVars == << pc, cpuData, ringVars, mFence, mCommandQueue, gpuBusy, log,
              ticks, waited, acquired, submitted, drawSlots, stamps, signalled,
              initFence, failure >>

WavesState ==
    [prev |-> mPrevSolution, curr |-> mCurrSolution, normals |-> mNormals, t |-> accumTime]

Magnitudes == {HeightOne}

\* delta times of 0, 1/8, 1/4 and 1/2 second
WavesDtSet == {0, 1, 2, 4}

CallDisturb ==
    /\ wavesCalls < MaxWavesCalls
    /\ \E i \in 0 .. (NumRows - 1), j \in 0 .. (NumCols - 1), m \in Magnitudes :
          LET w == WavesDisturb(WavesState, i, j, m)
          IN  /\ mPrevSolution' = w.prev /\ mCurrSolution' = w.curr
              /\ mNormals' = w.normals /\ accumTime' = w.t
              /\ wavesCall' = [op |-> "Disturb", row |-> i, col |-> j, arg |-> m]
    /\ wavesCalls' = wavesCalls + 1
    /\ UNCHANGED << wavesSteps, appVars, wavesGeometry >>

CallUpdate ==
    /\ wavesCalls < MaxWavesCalls
    /\ \E d \in WavesDtSet :
          /\ wavesSteps + StepsDue(accumTime + d) <= MaxWavesSteps
          /\ wavesSteps + StepsDue(accumTime + d) <= ExactSteps
          /\ LET w == WavesUpdate(WavesState, d)
             IN  /\ mPrevSolution' = w.prev /\ mCurrSolution' = w.curr
                 /\ mNormals' = w.normals /\ accumTime' = w.t
          /\ wavesSteps' = wavesSteps + StepsDue(accumTime + d)
          /\ wavesCall' = [op |-> "Update", row |-> NULL, col |-> NULL, arg |-> d]
    /\ wavesCalls' = wavesCalls + 1
    /\ UNCHANGED << appVars, wavesGeometry >>

WavesNext == CallDisturb \/ CallUpdate

\* the height field is driven on its own, the tick loop not started
WavesInit == Init /\ initFence = 0

WavesSpec == WavesInit /\ [][WavesNext]_vars

\* ----------------------------------------- BuildWavesGeometry, quad by quad
BeginBuildWavesGeometry ==
    /\ wavesGeometry = NotBuilt
    /\ \E m \in GridSizes, n \in GridSizes : wavesGeometry' = GeometryLocals(m, n)
    /\ UNCHANGED << appVars, wavesVars >>

\* one run of the inner loop body, then ++j and, at the end of the row, ++i
QuadStep ==
    /\ wavesGeometry # NotBuilt
    /\ RowLoopRuns(wavesGeometry.i, wavesGeometry.m)
    /\ ColLoopRuns(wavesGeometry.j, wavesGeometry.n)
    /\ LET g == wavesGeometry
           w == StoreQuad(g, QuadIndices(g.i, g.j, g.n), 1)
           rowDone == ~ColLoopRuns(g.j + 1, g.n)
       IN  wavesGeometry' =
               [w EXCEPT !.k = g.k + 6,
                         !.quads = Append(g.quads, << g.i, g.j >>),
                         !.j = IF rowDone THEN 0 ELSE g.j + 1,
                         !.i = IF rowDone THEN g.i + 1 ELSE g.i]
    /\ UNCHANGED << appVars, wavesVars >>

GeometryNext == BeginBuildWavesGeometry \/ QuadStep

GeometryInit == Init /\ initFence = 0

GeometrySpec == GeometryInit /\ [][GeometryNext]_vars

\* ============================================================== properties
\* the steps the transition appends to the tick's log
NewSteps ==
    IF log' = log THEN << >>
    ELSE IF Len(log') > Len(log) THEN SubSeq(log', Len(log) + 1, Len(log'))
    ELSE log'

Ops(l) == [i \in 1 .. Len(l) |-> l[i].op]

\* the GPU has retired the last submission that used slot s
Retired(s) == Fence[s] = 0 \/ Fence[s] <= mFence

InFlight(s) == Fence[s] # 0 /\ Fence[s] > mFence

InFlightCount == Cardinality({s \in FrameSlots : InFlight(s)})

SlotWriteOps ==
    { "UpdateObjectCBs", "UpdateMaterialCBs", "UpdateMainPassCB",
      "WavesVB.CopyData", "CmdListAlloc.Reset" }

\* C1: whenever the CPU writes a buffer of a frame slot (object, material or
\* pass constants, waves vertices) or resets the slot's command allocator, the
\* slot's stored fence is 0 or at most the GPU's completed value, for every
\* interleaving of the GPU with the tick.
C1_WritesOnlyRetiredSlots ==
    [][ /\ \A i \in 1 .. Len(NewSteps) :
              NewSteps[i].op \in SlotWriteOps => Retired(NewSteps[i].slot)
        /\ \A s \in FrameSlots :
              (\/ ObjectCB'[s] # ObjectCB[s] \/ MaterialCB'[s] # MaterialCB[s]
               \/ PassCB'[s] # PassCB[s] \/ WavesVB'[s] # WavesVB[s]) => Retired(s) ]_vars

\* a slot that had been submitted before is being rewritten after a wait
C1_Witness ==
    /\ pc = "UpdateMaterialCBs" /\ waited
    /\ Fence[mCurrFrameResource] # 0
    /\ Fence[mCurrFrameResource] <= mFence

\* C2 (as stated): in every reachable state, the state right after Draw has
\* stamped included, at most N-1 slots are in flight.
C2_AtMostNMinusOneInFlight == InFlightCount <= gNumFrameResources - 1

\* C2 (amended): at most N slots are ever in flight, and at most N-1 from the
\* moment Update is past its wait until Draw stamps the new fence.
C2_InFlightBound ==
    /\ InFlightCount <= gNumFrameResources
    /\ pc \notin {"Update", "Wait", "Signal"} => InFlightCount <= gNumFrameResources - 1

\* all N slots in flight right after the stamp
C2_Witness == pc = "Signal" /\ InFlightCount = gNumFrameResources

\* the oldest fence still outstanding
OldestOutstanding ==
    CHOOSE f \in {Fence[s] : s \in {x \in FrameSlots : InFlight(x)}} :
        \A s \in FrameSlots : InFlight(s) => f <= Fence[s]

\* C3: from a cold ring the first N acquisitions never wait; the (N+1)th,
\* when the GPU has retired none of the N submitted frames, waits, on the
\* fence of the oldest outstanding submission, and resumes only once the
\* completed value has reached it.
C3_Backpressure ==
    /\ [](ticks <= gNumFrameResources => ~waited /\ pc # "Wait")
    /\ [][ /\ (ticks' = gNumFrameResources + 1 /\ ticks = gNumFrameResources
                 /\ mFence = initFence) => pc' = "Wait"
           /\ (pc # "Wait" /\ pc' = "Wait") =>
                  (InFlight(mCurrFrameResource)
                     /\ Fence[mCurrFrameResource] = OldestOutstanding)'
           /\ (pc = "Wait" /\ pc' # "Wait") => mFence >= Fence[mCurrFrameResource] ]_vars

\* the (N+1)th acquisition has waited and resumed
C3_Witness ==
    /\ ticks = gNumFrameResources + 1 /\ waited /\ pc = "AnimateMaterials"
    /\ Fence[mCurrFrameResource] = initFence + 1

\* C4 (as stated): N ticks after the scene was built, every slot holds at
\* every render item's ObjCBIndex that item's constants and at every
\* (unmutated) material's MatCBIndex that material's constants.
C4_AllSlotsCurrentAfterNTicks ==
    (ticks = gNumFrameResources /\ pc = "Update") =>
        \A s \in FrameSlots :
            /\ \A k \in Ritems : ObjectCB[s][mAllRitems[k].ObjCBIndex] = ObjectConstants(k)
            /\ \A m \in MatNames \ {"water"} :
                   MaterialCB[s][mMaterials[m].MatCBIndex] = MaterialConstants(m)

WaterCBIndex == mMaterials["water"].MatCBIndex

\* C5: a mutation while the counter is still positive sets it back to
\* exactly N, never above; the tick's flush puts the new value in the current
\* slot, and once N ticks have flushed the last value every slot holds it.
C5_RemutationRestarts ==
    /\ MatNumFramesDirty["water"] <= gNumFrameResources
    /\ pc \in {"UpdateObjectCBs", "UpdateMaterialCBs"} =>
           MatNumFramesDirty["water"] = gNumFrameResources
    /\ pc \in {"UpdateMainPassCB", "UpdateWaves", "Draw", "Stamp", "Signal"} =>
           MaterialCB[mCurrFrameResource][WaterCBIndex] = MaterialConstants("water")
    /\ sinceChange >= gNumFrameResources =>
           \A s \in FrameSlots : MaterialCB[s][WaterCBIndex] = MaterialConstants("water")

\* two mutations one tick apart, then N flushes of the second value
C5_Witness ==
    /\ ticks = gNumFrameResources + 1 /\ pc = "Update"
    /\ sinceChange >= gNumFrameResources
    /\ tu = 2 * TuPerDt * QuarterSecond

Pos(l, op) == CHOOSE i \in 1 .. Len(l) : l[i].op = op

Before(l, a, b) == Pos(l, a) < Pos(l, b)

ActualOrder ==
    << "Acquire", "AnimateMaterials", "UpdateObjectCBs", "UpdateMaterialCBs",
       "UpdateMainPassCB", "Waves.Update", "WavesVB.CopyData",
       "CmdListAlloc.Reset", "ExecuteCommandLists", "Stamp", "Signal" >>

C7_CursorRoundRobin ==
    /\ [][ /\ mCurrFrameResourceIndex' # mCurrFrameResourceIndex => ticks' = ticks + 1
           /\ ticks' # ticks =>
                 /\ ticks' = ticks + 1
                 /\ mCurrFrameResourceIndex' =
                        (mCurrFrameResourceIndex + 1) % gNumFrameResources
                 /\ acquired' = mCurrFrameResourceIndex'
           /\ drawSlots' # drawSlots =>
                 drawSlots' = Append(drawSlots, acquired) ]_vars
    /\ [](\A i \in 1 .. Len(drawSlots) :
             i + gNumFrameResources - 1 <= Len(drawSlots) =>
                 {drawSlots[j] : j \in i .. (i + gNumFrameResources - 1)} = FrameSlots)
    /\ [](pc # "Update" =>
             mCurrFrameResource = acquired /\ mCurrFrameResourceIndex = acquired)

\* the ring has wrapped: more than N draws, the last on the first slot again
C7_Witness ==
    /\ Len(drawSlots) = gNumFrameResources + 1
    /\ drawSlots[Len(drawSlots)] = drawSlots[1]
    /\ pc = "Stamp"

StrictlyIncreasing(q) == \A i \in 1 .. Len(q) : \A j \in 1 .. Len(q) : i < j => q[i] < q[j]

\* C8: the end of Draw stores in the current slot the new mCurrentFence,
\* exactly one more than before, after the frame's commands went to the
\* queue, and then enqueues a signal for that value; the stored fences are
\* strictly increasing over the run and 0 only in a slot never submitted.
C8_StampAndSignal ==
    /\ [][ /\ (Fence' # Fence \/ mCurrentFence' # mCurrentFence) =>
                 /\ mCurrentFence' = mCurrentFence + 1
                 /\ Fence' = [Fence EXCEPT ![acquired] = mCurrentFence + 1]
                 /\ \E i \in 1 .. Len(log) : log[i] = Step("ExecuteCommandLists", acquired)
           /\ (pc = "Signal" /\ pc' # "Signal") =>
                 /\ mCommandQueue' =
                        Append(mCommandQueue, [type |-> "Signal", value |-> mCurrentFence])
                 /\ Fence[acquired] = mCurrentFence
                 /\ \E i \in 1 .. Len(log) : log[i] = Step("ExecuteCommandLists", acquired) ]_vars
    /\ [](StrictlyIncreasing(stamps))
    /\ [](\A s \in FrameSlots : Fence[s] = 0 <=> s \notin submitted)
    /\ []((pc = "Update" /\ ticks > 0) => Fence[acquired] = mCurrentFence)

\* a second Draw has ended
C8_Witness ==
    /\ pc = "Update" /\ ticks = 2
    /\ Fence[acquired] = initFence + 2
    /\ Len(stamps) = 2

\* C9: the wait only ever targets a value that has been handed to Signal, so
\* with a GPU that keeps serving its queue every waiting Update proceeds and
\* every tick that was begun ends.
C9_WaitEnds ==
    /\ [](pc = "Wait" => /\ Fence[mCurrFrameResource] \in signalled
                         /\ ENABLED (GPU \/ Wait))
    /\ (pc = "Wait") ~> (pc = "AnimateMaterials")
    /\ (pc # "Update") ~> (pc = "Update")

\* a tick that had to wait has reached its end
C9_Witness == waited /\ pc = "Update" /\ ticks = gNumFrameResources + 1

\* the frame slots a submitted command list refers to
RefSlots(e) ==
    {e.alloc}
    \cup {e.cmds[i].slot : i \in {j \in 1 .. Len(e.cmds) : e.cmds[j].cmd = "SetPassCB"}}
    \cup UNION {{e.cmds[i].objCB.slot, e.cmds[i].matCB.slot} :
                   i \in {j \in 1 .. Len(e.cmds) : e.cmds[j].cmd = "DrawIndexedInstanced"}}
    \cup {e.cmds[i].vb.slot :
             i \in {j \in 1 .. Len(e.cmds) :
                       /\ e.cmds[j].cmd = "DrawIndexedInstanced"
                       /\ e.cmds[j].vb.geo = "waterGeo"}}

DrawsWaves(e) ==
    \E i \in 1 .. Len(e.cmds) :
        /\ e.cmds[i].cmd = "DrawIndexedInstanced"
        /\ e.cmds[i].ritem = mWavesRitem
        /\ e.cmds[i].vb.geo = "waterGeo"

\* C10: the command list a tick submits refers to the buffers of the slot
\* acquired in that tick only: allocator, pass, object and material
\* constants, and the waves vertex buffer bound through the water geometry.
C10_OnlyCurrentSlot ==
    [][ Len(mCommandQueue') > Len(mCommandQueue) =>
           LET e == mCommandQueue'[Len(mCommandQueue')]
           IN  e.type = "Exec" => DrawsWaves(e) /\ RefSlots(e) = {acquired} ]_vars

\* a frame submitted on a reused slot is waiting in the queue
C10_Witness ==
    /\ pc = "Stamp" /\ ticks = gNumFrameResources + 1
    /\ mCommandQueue # << >>
    /\ mCommandQueue[Len(mCommandQueue)].type = "Exec"
    /\ mCommandQueue[Len(mCommandQueue)].alloc = acquired
    /\ VertexBufferGPU = acquired

\* the positions of the tick at which the CPU holds the slot it acquired:
\* from the end of Update's fence test and wait to the stamp in Draw
InUsePcs ==
    { "AnimateMaterials", "UpdateObjectCBs", "UpdateMaterialCBs", "UpdateMainPassCB",
      "UpdateWaves", "Draw", "Stamp" }

SlotState(s) ==
    IF s = mCurrFrameResource /\ pc \in InUsePcs THEN "InUse"
    ELSE IF InFlight(s) THEN "Submitted"
    ELSE "Free"

SlotCycle ==
    { <<"Free", "InUse">>, <<"InUse", "Submitted">>, <<"Submitted", "Free">> }

\* C11: every slot moves Free -> InUse -> Submitted -> Free and in no other
\* way; at most one slot is InUse at a time and it is the cursor's; a slot's
\* stored fence changes only in the stamp of a tick that holds this slot, and
\* it is never set back to 0 or lowered.
C11_SlotCycle ==
    /\ [][ \A s \in FrameSlots :
              /\ SlotState(s)' # SlotState(s) => <<SlotState(s), SlotState(s)'>> \in SlotCycle
              /\ Fence'[s] # Fence[s] =>
                    /\ pc = "Stamp" /\ s = acquired /\ s = mCurrFrameResourceIndex
                    /\ SlotState(s) = "InUse"
                    /\ Fence'[s] > Fence[s] ]_vars
    /\ [](/\ Cardinality({s \in FrameSlots : SlotState(s) = "InUse"}) <= 1
          /\ \A s \in FrameSlots : SlotState(s) = "InUse" => s = mCurrFrameResourceIndex)

\* a slot is submitted for the second time: it went round the whole cycle
C11_Witness ==
    /\ ticks = gNumFrameResources + 1 /\ pc = "Signal" /\ waited
    /\ SlotState(acquired) = "Submitted"
    /\ \E s \in FrameSlots \ {acquired} : SlotState(s) = "Free"

WaitCalls == { "SetEventOnCompletion", "WaitForSingleObject" }

\* C12 (as stated): when registering the completion event or the OS wait
\* itself fails, the failure is fatal: the tick loop has ended, so the tick
\* writes none of the slot's buffers and nothing is retried.
C12_WaitFailureIsFatal == failure \in WaitCalls => pc = "Fatal"

GpuCalls ==
    { "CmdListAlloc.Reset", "CommandList.Reset", "CommandList.Close", "Present", "Signal" }

\* C13 (as stated): when the allocator reset, the command list's reset or
\* close, Present or the queue's Signal fails, the tick loop has ended: no
\* later step of the tick and no later tick runs.
C13_GpuFailureIsFatal == failure \in GpuCalls => pc = "Fatal"

\* the constant-buffer elements the command lists in the queue address
AddressedInRange ==
    \A q \in 1 .. Len(mCommandQueue) :
        mCommandQueue[q].type = "Exec" =>
            \A i \in 1 .. Len(mCommandQueue[q].cmds) :
                mCommandQueue[q].cmds[i].cmd = "DrawIndexedInstanced" =>
                    /\ mCommandQueue[q].cmds[i].objCB.index
                          \in DOMAIN ObjectCB[mCommandQueue[q].cmds[i].objCB.slot]
                    /\ mCommandQueue[q].cmds[i].matCB.index
                          \in DOMAIN MaterialCB[mCommandQueue[q].cmds[i].matCB.slot]

\* the scene is complete when the frame resources are built, and the loop of
\* UpdateWaves copies the vertex indices 0 .. VertexCount-1
StaticCapacities ==
    /\ BuiltBefore("BuildRenderItems", "BuildFrameResources")
    /\ BuiltBefore("BuildMaterials", "BuildFrameResources")
    /\ WavesVBCapacity = mWavesVertexCount
    /\ mWavesVertexCount - 1 < WavesVBCapacity

\* C14: every slot is allocated once with room for exactly as many object
\* records as there are render items, as many material records as materials
\* and as many vertices as the height field has; every ObjCBIndex, MatCBIndex
\* and waves vertex index written or addressed is below the capacity, and the
\* scene is complete before the slots are built.
C14_Capacities ==
    /\ [](\A s \in FrameSlots :
             /\ DOMAIN ObjectCB[s] = 0 .. (Len(mAllRitems) - 1)
             /\ DOMAIN MaterialCB[s] = 0 .. (Cardinality(MatNames) - 1)
             /\ \A k \in Ritems : mAllRitems[k].ObjCBIndex \in DOMAIN ObjectCB[s]
             /\ \A m \in MatNames : mMaterials[m].MatCBIndex \in DOMAIN MaterialCB[s])
    /\ [](StaticCapacities /\ AddressedInRange)
    /\ [][ \A s \in FrameSlots :
              /\ DOMAIN ObjectCB'[s] = DOMAIN ObjectCB[s]
              /\ DOMAIN MaterialCB'[s] = DOMAIN MaterialCB[s] ]_vars

\* the highest indices in use have been written in the current slot and a
\* command list addressing them is in the queue
C14_Witness ==
    /\ pc = "Stamp" /\ ticks = 1 /\ mCommandQueue # << >>
    /\ \E k \in Ritems :
          /\ \A j \in Ritems : mAllRitems[j].ObjCBIndex <= mAllRitems[k].ObjCBIndex
          /\ ObjectCB[mCurrFrameResource][mAllRitems[k].ObjCBIndex] = ObjectConstants(k)
    /\ MaterialCB[mCurrFrameResource][MaterialCount - 1] = MaterialConstants("treeSprites")

TestMagnitudes == { -HeightOne, HeightOne \div 4, HeightOne }

HeightFieldVars == << mPrevSolution, mCurrSolution, mNormals, accumTime >>

\* C15: Disturb on a cell of the first or last row or column changes nothing,
\* whatever the magnitude: both height buffers, the normals and the
\* accumulated time are the same before and after the call.
C15_BoundaryDisturbNoOp ==
    /\ [](\A c \in Cells : Boundary(c) =>
             \A m \in TestMagnitudes : WavesDisturb(WavesState, c[1], c[2], m) = WavesState)
    /\ [][ (/\ wavesCalls' # wavesCalls
            /\ wavesCall'.op = "Disturb"
            /\ Boundary(<<wavesCall'.row, wavesCall'.col>>)) =>
               UNCHANGED HeightFieldVars ]_vars

\* Disturb on a boundary cell was the last call on a field that is not flat
\* and has time accumulated
C15_Witness ==
    /\ wavesCall.op = "Disturb" /\ Boundary(<<wavesCall.row, wavesCall.col>>)
    /\ mCurrSolution # Flat.curr /\ accumTime > 0

\* C16: from any state of the height field, one Update(2 * timeStep) gives
\* the same heights, previous heights, normals and accumulated time as two
\* Update(timeStep) in a row; and every Update(dt) runs the recurrence once
\* per whole time step contained in the accumulated time and keeps the rest.
C16_FixedStepIndependence ==
    /\ [](wavesSteps + 2 <= ExactSteps =>
             WavesUpdate(WavesState, 2 * TimeStep)
                 = WavesUpdate(WavesUpdate(WavesState, TimeStep), TimeStep))
    /\ [][ (wavesCalls' # wavesCalls /\ wavesCall'.op = "Update") =>
              LET acc == accumTime + wavesCall'.arg
                  n == CHOOSE k \in 0 .. acc : k * TimeStep <= acc /\ acc < (k + 1) * TimeStep
              IN  /\ wavesSteps' = wavesSteps + n
                  /\ accumTime' = acc - n * TimeStep
                  /\ mCurrSolution' = WavesSteps(WavesState, n).curr
                  /\ mPrevSolution' = WavesSteps(WavesState, n).prev
                  /\ mNormals' = WavesNormals(mCurrSolution') ]_vars

\* one Update(0.5) has run two steps on a disturbed field
C16_Witness ==
    /\ wavesCall.op = "Update" /\ wavesCall.arg = 2 * TimeStep
    /\ wavesSteps = 2
    /\ mCurrSolution # Flat.curr /\ mPrevSolution # Flat.curr
    /\ mPrevSolution # mCurrSolution

\* C17: Update(0) changes neither the heights nor the previous heights nor
\* the accumulated time, from any state and however often it is called, also
\* when the accumulated time is one unit below the time step.
C17_ZeroUpdateNoChange ==
    /\ [](LET once == WavesUpdate(WavesState, 0)
              twice == WavesUpdate(once, 0)
          IN  /\ once.curr = mCurrSolution /\ once.prev = mPrevSolution
              /\ once.t = accumTime
              /\ twice.curr = mCurrSolution /\ twice.prev = mPrevSolution
              /\ twice.t = accumTime)
    /\ [](accumTime < TimeStep)
    /\ [][ (wavesCalls' # wavesCalls /\ wavesCall'.op = "Update" /\ wavesCall'.arg = 0) =>
              UNCHANGED << mPrevSolution, mCurrSolution, accumTime, wavesSteps >> ]_vars

\* Update(0) was called on a disturbed field whose accumulated time is just
\* below the time step
C17_Witness ==
    /\ wavesCall.op = "Update" /\ wavesCall.arg = 0
    /\ accumTime = TimeStep - 1
    /\ mCurrSolution # Flat.curr

Centre == CellOf(3 * NumCols + 3)

Corners ==
    { <<0, 0>>, <<0, NumCols - 1>>, <<NumRows - 1, 0>>, <<NumRows - 1, NumCols - 1>> }

\* the scenario: a flat field, Disturb(3, 3, 1.0), then one Update(0.25)
AfterScenarioDisturb ==
    /\ wavesCalls = 1
    /\ wavesCall = [op |-> "Disturb", row |-> 3, col |-> 3, arg |-> HeightOne]

AfterScenarioUpdate ==
    /\ wavesCalls = 2 /\ wavesSteps = 1
    /\ wavesCall = [op |-> "Update", row |-> NULL, col |-> NULL, arg |-> TimeStep]
    /\ mPrevSolution = WavesDisturb(Flat, 3, 3, HeightOne).curr

DirtyRitemsAt(i) == {k \in Ritems : NumFramesDirty[k] > 0 /\ mAllRitems[k].ObjCBIndex = i}

DirtyMatsAt(i) == {m \in MatNames : MatNumFramesDirty[m] > 0 /\ mMaterials[m].MatCBIndex = i}

\* C19: the flush of a tick leaves an item whose counter is 0 alone (no
\* record written, counter still 0); for an item whose counter is positive it
\* writes the record at the item's index in the current slot and nothing
\* else, and lowers the counter by exactly 1; the other N-1 slots keep their
\* records.  Outside the two flushes no record and no render item's counter
\* changes.
C19_FlushEffect ==
    [][ /\ (pc = "UpdateObjectCBs" /\ pc' # pc) =>
              /\ \A k \in Ritems :
                    NumFramesDirty'[k] =
                        IF NumFramesDirty[k] = 0 THEN 0 ELSE NumFramesDirty[k] - 1
              /\ \A s \in FrameSlots \ {mCurrFrameResource} : ObjectCB'[s] = ObjectCB[s]
              /\ \A i \in DOMAIN ObjectCB[mCurrFrameResource] :
                    IF DirtyRitemsAt(i) = {}
                    THEN ObjectCB'[mCurrFrameResource][i] = ObjectCB[mCurrFrameResource][i]
                    ELSE \E k \in DirtyRitemsAt(i) :
                            ObjectCB'[mCurrFrameResource][i] = ObjectConstants(k)
              /\ UNCHANGED << MaterialCB, MatNumFramesDirty >>
        /\ (pc = "UpdateMaterialCBs" /\ pc' # pc) =>
              /\ \A m \in MatNames :
                    MatNumFramesDirty'[m] =
                        IF MatNumFramesDirty[m] = 0 THEN 0 ELSE MatNumFramesDirty[m] - 1
              /\ \A s \in FrameSlots \ {mCurrFrameResource} : MaterialCB'[s] = MaterialCB[s]
              /\ \A i \in DOMAIN MaterialCB[mCurrFrameResource] :
                    IF DirtyMatsAt(i) = {}
                    THEN MaterialCB'[mCurrFrameResource][i] = MaterialCB[mCurrFrameResource][i]
                    ELSE \E m \in DirtyMatsAt(i) :
                            MaterialCB'[mCurrFrameResource][i] = MaterialConstants(m)
              /\ UNCHANGED << ObjectCB, NumFramesDirty >>
        /\ ~(pc \in {"UpdateObjectCBs", "UpdateMaterialCBs"} /\ pc' # pc) =>
              UNCHANGED << ObjectCB, MaterialCB, NumFramesDirty >> ]_vars

\* a flush has run in which every render item and every material but the
\* water was clean, and the water record of the current slot was rewritten
C19_Witness ==
    /\ pc = "UpdateMainPassCB" /\ ticks = gNumFrameResources + 1
    /\ \A k \in Ritems : NumFramesDirty[k] = 0
    /\ \A m \in MatNames \ {"water"} : MatNumFramesDirty[m] = 0
    /\ MatNumFramesDirty["water"] = gNumFrameResources - 1
    /\ \E s \in FrameSlots \ {mCurrFrameResource} :
          MaterialCB[s][WaterCBIndex] # MaterialCB[mCurrFrameResource][WaterCBIndex]

GeometryDone == wavesGeometry # NotBuilt /\ ~RowLoopRuns(wavesGeometry.i, wavesGeometry.m)

WrittenIndices == {p \in 1 .. Len(wavesGeometry.indices) : wavesGeometry.indices[p] # NULL}

\* C21: on an m x n grid with m, n >= 2, BuildWavesGeometry runs its loop body
\* once for each of the (m-1)(n-1) quads and stores six indices per quad (two
\* triangles of three different vertices), never at or beyond the end of the
\* vector, every stored value a vertex index in 0 .. m*n - 1; when the loops
\* end exactly 3 * TriangleCount entries are filled, which is the whole
\* vector; and the 128 x 128 grid of Initialize has fewer than 65535 vertices.
C21_WavesIndices ==
    /\ mWavesVertexCount < 65535
    /\ wavesGeometry # NotBuilt =>
         LET g == wavesGeometry
         IN  /\ ~g.past
             /\ g.k = 6 * Len(g.quads)
             /\ \A a \in 1 .. Len(g.quads) : \A b \in 1 .. Len(g.quads) :
                    a # b => g.quads[a] # g.quads[b]
             /\ \A a \in 1 .. Len(g.quads) :
                    g.quads[a][1] \in 0 .. (g.m - 2) /\ g.quads[a][2] \in 0 .. (g.n - 2)
             /\ WrittenIndices = 1 .. g.k
             /\ \A p \in WrittenIndices : g.indices[p] \in 0 .. (g.m * g.n - 1)
             /\ \A t \in 0 .. (2 * Len(g.quads) - 1) :
                    Cardinality({g.indices[3 * t + r] : r \in 1 .. 3}) = 3
             /\ GeometryDone =>
                    /\ Len(g.quads) = (g.m - 1) * (g.n - 1)
                    /\ g.k = 3 * WavesTriangleCount(g.m, g.n)
                    /\ g.k = Len(g.indices)

C21_Witness ==
    /\ GeometryDone
    /\ wavesGeometry.m = 3 /\ wavesGeometry.n = 4
    /\ wavesGeometry.k = 36
    /\ wavesGeometry.indices[36] = 11

\* ---------------------------------------------------------------------- C22
\* C22 (as stated): no two render items of mAllRitems share an ObjCBIndex,
\* so in every slot the record at an item's index is either still unwritten
\* or that item's own object constants, never another item's.
C22_DistinctObjCBIndex ==
    /\ \A a \in Ritems : \A b \in Ritems :
           a # b => mAllRitems[a].ObjCBIndex # mAllRitems[b].ObjCBIndex
    /\ \A s \in FrameSlots : \A k \in Ritems :
           ObjectCB[s][mAllRitems[k].ObjCBIndex] \in {BlankObject, ObjectConstants(k)}

\* ---------------------------------------------------------------------- C23
\* the resource state of the back buffer after the commands cmds, st being
\* its state before them: a transition barrier leaves it in its after-state
RECURSIVE BackBufferAfter(_, _)
BackBufferAfter(cmds, st) ==
    IF cmds = << >> THEN st
    ELSE BackBufferAfter(Tail(cmds),
                         IF Head(cmds).cmd = "ResourceBarrier" THEN Head(cmds).after ELSE st)

\* the state the back buffer is in when command p of the list is reached; a
\* frame starts with the buffer as Present left it
BackBufferAt(cmds, p) == BackBufferAfter(SubSeq(cmds, 1, p - 1), "PRESENT")

CommandLists ==
    {mCommandQueue[q].cmds : q \in {r \in 1 .. Len(mCommandQueue) : mCommandQueue[r].type = "Exec"}}
        \cup {gpuBusy[q].cmds : q \in 1 .. Len(gpuBusy)}

\* C23 (as stated): in every command list Draw records, each transition
\* barrier names as its before-state the state the back buffer is in, every
\* draw call of the four layers is recorded while the buffer is in
\* RENDER_TARGET, and the buffer is in PRESENT when the list is closed.
C23_BackBufferStates ==
    \A cmds \in CommandLists :
        /\ \A p \in 1 .. Len(cmds) :
              /\ cmds[p].cmd = "ResourceBarrier" => cmds[p].before = BackBufferAt(cmds, p)
              /\ cmds[p].cmd = "DrawIndexedInstanced" => BackBufferAt(cmds, p) = "RENDER_TARGET"
        /\ BackBufferAfter(cmds, "PRESENT") = "PRESENT"

\* ---------------------------------------------------------------------- C24
\* the Nth tick has ended
NTicksDone == ticks > gNumFrameResources \/ (ticks = gNumFrameResources /\ pc = "Update")

\* C24: every render item's and every material's frames-dirty counter stays
\* in 0 .. N; no step raises a render item's counter; once the Nth tick has
\* ended every render item's counter is 0, and from then on UpdateObjectCBs
\* writes no record and changes no counter.
C24_DirtyCounters ==
    /\ [](/\ \A k \in Ritems : NumFramesDirty[k] \in 0 .. gNumFrameResources
          /\ \A m \in MatNames : MatNumFramesDirty[m] \in 0 .. gNumFrameResources
          /\ NTicksDone => \A k \in Ritems : NumFramesDirty[k] = 0)
    /\ [][/\ \A k \in Ritems : NumFramesDirty'[k] <= NumFramesDirty[k]
          /\ NTicksDone => ObjectCB' = ObjectCB /\ NumFramesDirty' = NumFramesDirty]_vars

\* the flush of the tick after the Nth has run
C24_Witness ==
    /\ ticks = gNumFrameResources + 1
    /\ pc = "UpdateMaterialCBs"
    /\ \A k \in Ritems : NumFramesDirty[k] = 0
    /\ \E m \in MatNames : MatNumFramesDirty[m] = gNumFrameResources

\* ---------------------------------------------------------------------- C25
\* C25: the water material's frames-dirty counter never reaches 0 and is
\* N - 1 from the material flush of a tick to the end of that tick; when Draw
\* submits the command list, the current slot's water material record holds
\* the material transform AnimateMaterials computed in that same tick.
C25_WaterAlwaysDirty ==
    /\ [](/\ MatNumFramesDirty["water"] > 0
          /\ (ticks > 0 /\ pc \in {"UpdateMainPassCB", "UpdateWaves", "Draw", "Stamp",
                                    "Signal", "Update"}) =>
                 MatNumFramesDirty["water"] = gNumFrameResources - 1)
    /\ [][(pc = "Draw" /\ pc' # pc) =>
             MaterialCB'[mCurrFrameResource][WaterCBIndex].MatTransform
                 = XMMatrixTranspose(MatTransform("water"))]_vars

\* the second submission, its tick having moved the texture offsets
C25_Witness ==
    /\ ticks = 2 /\ pc = "Stamp" /\ dt = 2 /\ tu > 0
    /\ MatNumFramesDirty["water"] = gNumFrameResources - 1
    /\ MaterialCB[mCurrFrameResource][WaterCBIndex].MatTransform[1][4] = tu
    /\ MaterialCB[mCurrFrameResource][WaterCBIndex].MatTransform[2][4] = tv

\* ---------------------------------------------------------------------- C26
\* C26: every Disturb that UpdateWaves issues targets a row in
\* 4 .. RowCount - 5 and a column in 4 .. ColumnCount - 5; on the 128 x 128
\* grid such a cell is at least 2 cells away from every boundary, so the
\* height field never rejects the call.
C26_DisturbInterior ==
    lastDisturb # NoDisturb =>
        /\ lastDisturb.row \in 4 .. (mWavesRowCount - 5)
        /\ lastDisturb.col \in 4 .. (mWavesColumnCount - 5)
        /\ lastDisturb.row >= 2 /\ (mWavesRowCount - 1) - lastDisturb.row >= 2
        /\ lastDisturb.col >= 2 /\ (mWavesColumnCount - 1) - lastDisturb.col >= 2
        /\ ~DisturbRejected(lastDisturb.row, lastDisturb.col,
                            mWavesRowCount, mWavesColumnCount)

\* a wave at the last admitted row and the first admitted column
C26_Witness ==
    /\ pc = "Draw" /\ disturbs = 2
    /\ lastDisturb = [row |-> mWavesRowCount - 5, col |-> 4]

C28_TexOffsetsInRange ==
    /\ 0 <= tu /\ tu < TexOne
    /\ 0 <= tv /\ tv < TexOne

\* ---------------------------------------------------------------------- C29
\* the slots in ring order, starting q slots after the cursor
RingFrom(q) == [r \in 1 .. gNumFrameResources |->
                   (mCurrFrameResourceIndex + q + r - 1) % gNumFrameResources]

\* the nonzero fences met when the ring is followed from q slots after the cursor
FencesFrom(q) ==
    LET ring == SelectSeq(RingFrom(q), LAMBDA s : Fence[s] # 0)
    IN  [r \in 1 .. Len(ring) |-> Fence[ring[r]]]

\* the slot stamped last: every Draw stamps the slot it has submitted
LastSubmitted == IF stamps = << >> THEN NULL ELSE drawSlots[Len(stamps)]

\* the nonzero fences are pairwise distinct, none exceeds mCurrentFence, the
\* slot submitted last holds mCurrentFence, and the GPU's completed value does
\* not exceed mCurrentFence
FenceBounds ==
    /\ \A a \in FrameSlots : \A b \in FrameSlots :
           (a # b /\ Fence[a] # 0 /\ Fence[b] # 0) => Fence[a] # Fence[b]
    /\ \A s \in FrameSlots : Fence[s] <= mCurrentFence
    /\ LastSubmitted # NULL => Fence[LastSubmitted] = mCurrentFence
    /\ mFence <= mCurrentFence

\* a tick has moved the cursor to a slot that it has not stamped yet
TickOpen == pc \notin {"Update", "Signal"}

\* C29 (as stated): in every reachable state the fences obey FenceBounds and
\* the nonzero fences are strictly increasing along the ring from the slot
\* after the cursor.
C29_FenceOrderFromNext ==
    /\ FenceBounds
    /\ StrictlyIncreasing(FencesFrom(1))

\* C29: in every reachable state the fences obey FenceBounds; the nonzero
\* fences are strictly increasing along the ring from the slot after the
\* cursor once Draw has stamped the cursor's slot, and from the cursor's slot
\* itself while the tick has not stamped it yet (it then holds the oldest).
C29_FenceOrder ==
    /\ FenceBounds
    /\ StrictlyIncreasing(FencesFrom(IF TickOpen THEN 0 ELSE 1))

\* the fourth tick has taken the first slot again, all slots stamped
C29_Witness ==
    /\ ticks = gNumFrameResources + 1 /\ pc = "UpdateWaves"
    /\ \A s \in FrameSlots : Fence[s] # 0
    /\ \A s \in FrameSlots \ {mCurrFrameResourceIndex} :
           Fence[mCurrFrameResourceIndex] < Fence[s]
    /\ ~StrictlyIncreasing(FencesFrom(1))

\* ---------------------------------------------------------------------- C30
\* the runs of the current slot's waves vertex buffer
CurrWavesVB == WavesVB[mCurrFrameResource]

\* C30: when Draw submits the command list, every vertex 0 .. VertexCount - 1
\* of the current slot's waves vertex buffer holds the solution the height
\* field has after this tick's Update (the tick's number of Update calls and
\* all Disturb calls so far), nothing of the slot's earlier use; the water
\* geometry is bound to the current slot's buffer and the draw of the waves
\* item in the submitted list uses it.
C30_WavesVertices ==
    [][(pc = "Draw" /\ pc' # pc) =>
          /\ wavesRev = ticks
          /\ \A v \in {0, mWavesVertexCount \div 2, mWavesVertexCount - 1} :
                \E r \in 1 .. Len(CurrWavesVB) :
                   CurrWavesVB[r].lo <= v /\ v <= CurrWavesVB[r].hi
          /\ \A r \in 1 .. Len(CurrWavesVB) :
                CurrWavesVB[r].rev = wavesRev /\ CurrWavesVB[r].disturbs = disturbs
          /\ CurrWavesVB[1].lo = 0
          /\ CurrWavesVB[Len(CurrWavesVB)].hi = mWavesVertexCount - 1
          /\ VertexBufferGPU = mCurrFrameResource
          /\ LET cmds == mCommandQueue'[Len(mCommandQueue')].cmds
             IN  /\ \E p \in 1 .. Len(cmds) :
                       cmds[p].cmd = "DrawIndexedInstanced" /\ cmds[p].ritem = mWavesRitem
                 /\ \A p \in 1 .. Len(cmds) :
                       (cmds[p].cmd = "DrawIndexedInstanced" /\ cmds[p].ritem = mWavesRitem)
                           => cmds[p].vb.slot = mCurrFrameResource]_vars

\* the fourth tick submits the slot the first tick used, a wave added since
C30_Witness ==
    /\ pc = "Stamp" /\ ticks = gNumFrameResources + 1
    /\ disturbs >= 2
    /\ WavesVB[mCurrFrameResource]
           = << [lo |-> 0, hi |-> mWavesVertexCount - 1, rev |-> ticks, disturbs |-> disturbs] >>
    /\ \E s \in FrameSlots : WavesVB[s][1].rev = ticks - 1

====
